---------------------------- MODULE Spec2Model ----------------------------
(***************************************************************************)
(* The hunter-agent recommendation service of art_recommender:             *)
(*   backend/hunter_agent/api.py       the HTTP handlers and their globals *)
(*   backend/hunter_agent/reranker.py  the preference update and ranking   *)
(*   backend/hunter_agent/embedding.py, art_embedding.py  vectorization    *)
(*   backend/db/supabase_client.py     the tables (one REST call = 1 step) *)
(* One user is modelled: every table row and every global is keyed by the  *)
(* user's uuid, and no handler reads another user's rows.                  *)
(*                                                                         *)
(* Handlers are synchronous FastAPI endpoints, so requests run on worker   *)
(* threads and interleave between their database calls.  Each request slot *)
(* p has a program counter pc[p]; one action is one database call together *)
(* with the local computation that follows it.                             *)
(*                                                                         *)
(* Embeddings are 2-dimensional fixed-point vectors (Scale = 1.0).         *)
(***************************************************************************)
EXTENDS Integers, Sequences, FiniteSets, TLC

(***************************************************************************)
(* Program constants.                                                      *)
(***************************************************************************)
SWIPE_COMPLETION_THRESHOLD == 5

RIGHT_SWIPE_LIMIT == 30

CONTENT_DOMAINS == <<"art", "books", "movies", "music", "poetry", "podcasts", "musicals">>

\* get_candidates returns sorted_candidates[:10]
SERVE_LIMIT == 10

\* swipe calls get_personalized_candidates(req.user_uuid, limit=50)
PLAN_LIMIT == 50

\* generate_in_background keeps domain_candidates[:10] of every domain
DOMAIN_TAKE == 10

\* generate_in_background keeps all_candidates[:60]
CACHE_LIMIT == 60

\* retrieve_top_candidates returns unique_results[:100]
RETRIEVE_LIMIT == 100

\* upsert_user_embedding(user_uuid, embedding, version=1) of generate_user_embedding
InitVersion == 1

(***************************************************************************)
(* Bounds of the model.                                                    *)
(***************************************************************************)
\* item ids 1..NItems
NItems == 33

\* concurrent request slots (worker threads serving requests)
NProcs == 2

\* requests started in one behaviour
MaxRequests == 2

\* background generation threads that may be alive
MaxBg == 2

\* concurrent generate_user_embedding(uuid) calls that store (the main.py script)
MaxGen == 2

\* the items a ranking call's user can have candidate rows for
MaxRank == 5

\* the largest limit of a ranking call
MaxLimit == 3

\* liked items in one preference update on given vectors
MaxLikes == 2

\* disliked items in one preference update on given vectors
MaxDislikes == 3

\* items in one adapter result given to the deduplication
MaxResults == 3

\* candidates in one list given to batch_generate_embeddings
MaxBatch == 2

\* batch_generate_embeddings calls in one behaviour
MaxCalls == 2

\* fixed-point unit: the integer Scale stands for 1.0
Scale == 1000

Items == 1..NItems

Procs == 1..NProcs

BgIds == 1..MaxBg

GenIds == 1..MaxGen

Domains == {CONTENT_DOMAINS[k] : k \in 1..Len(CONTENT_DOMAINS)}

(***************************************************************************)
(* Vector arithmetic of reranker.py (numpy), in fixed point.               *)
(***************************************************************************)
Vec(x, y) == <<x, y>>

\* a float nan, as a number outside the range of the fixed-point arithmetic
NaN == 0 - (Scale * Scale * Scale)

NaNVec == <<NaN, NaN>>

IsNaNVec(v) == v[1] = NaN \/ v[2] = NaN

VAdd(a, b) ==
    IF IsNaNVec(a) \/ IsNaNVec(b) THEN NaNVec ELSE <<a[1] + b[1], a[2] + b[2]>>

VSub(a, b) ==
    IF IsNaNVec(a) \/ IsNaNVec(b) THEN NaNVec ELSE <<a[1] - b[1], a[2] - b[2]>>

\* a / b rounded to the nearest integer, b > 0
RDiv(a, b) == (2 * a + b) \div (2 * b)

\* (num / den) * e, as in 0.1 * np.array(e) and 0.05 * np.array(e)
VScale(num, den, e) ==
    IF IsNaNVec(e) THEN NaNVec ELSE <<RDiv(num * e[1], den), RDiv(num * e[2], den)>>

Dot(a, b) == a[1] * b[1] + a[2] * b[2]

RECURSIVE SqrtSearch(_, _, _)
\* the largest r in lo..hi with r * r <= n
SqrtSearch(lo, hi, n) ==
    IF lo >= hi THEN lo
    ELSE LET mid == (lo + hi + 1) \div 2
         IN IF mid * mid <= n THEN SqrtSearch(mid, hi, n)
                              ELSE SqrtSearch(lo, mid - 1, n)

\* np.linalg.norm
Norm(v) == SqrtSearch(0, 20 * Scale, Dot(v, v))

\* user_vector / np.linalg.norm(user_vector): a zero norm gives nan, not an error
Normalize(v) ==
    IF IsNaNVec(v) \/ Norm(v) = 0 THEN NaNVec
    ELSE <<RDiv(v[1] * Scale, Norm(v)), RDiv(v[2] * Scale, Norm(v))>>

\* one unit in the last place of the fixed-point numbers
Ulp == 1

\* sklearn cosine_similarity: the dot product of the two normalized vectors
Cosine(u, e) == RDiv(Dot(Normalize(u), Normalize(e)), Scale)

(***************************************************************************)
(* The external collaborators, as the deterministic functions they are.    *)
(***************************************************************************)
\* the embedding backend's vector for an item's text
ItemVec(i) ==
    CASE i % 4 = 0 -> Vec(Scale, 0)
      [] i % 4 = 1 -> Vec(0, Scale)
      [] i % 4 = 2 -> Vec(3 * (Scale \div 5), 4 * (Scale \div 5))
      [] OTHER     -> Vec(-4 * (Scale \div 5), 3 * (Scale \div 5))

\* the embedding backend's vector for the user's profile text
ProfileVec == Vec(4 * (Scale \div 5), 3 * (Scale \div 5))

(***************************************************************************)
(* The tables.  user_item holds the ledger rows of the user: ledger[i] is  *)
(* the sequence of statuses of the rows with item_id = i, in insertion     *)
(* order (empty: no row).                                                  *)
(***************************************************************************)
SwipedStatuses == {"swipe_left", "swipe_right"}

\* SwipeRequest.status is an unvalidated string
RequestStatuses == {"swipe_left", "swipe_right", "candidate"}

NoEmb == [vec |-> <<>>, version |-> 0]

VARIABLES
    ledger,             \* table user_item
    userEmb,            \* table user_embedding: the user's row, or NoEmb
    catalog,            \* table item: the item_ids present
    itemEmb,            \* table item_embedding: the item_ids present
    profile,            \* table user_profile: "none", "incomplete", "complete"
    generation_status,  \* api.generation_status[uuid]: "absent" when not a key
    user_candidates,    \* api.user_candidates[uuid]: a sequence of item ids
    base,               \* the number of swiped edges the behaviour starts from
    pc,                 \* pc[p]: where request slot p stands
    loc,                \* loc[p]: the locals of the request in slot p
    resp,               \* the response sent last
    nreq,               \* requests started so far
    bg,                 \* bg[b]: the background generation threads
    lastGen,            \* history: the candidate generation run that ended last
    gen,                \* gen[g]: the storing generate_user_embedding calls in progress
    call,               \* one call of the preference update on given arguments
    writes,             \* history: upsert_user_embedding calls made by the updater
    staleWrites,        \* history: those made after the stored version had moved on
    firstTrig,          \* history: times the total == 5 branch of swipe ran
    periodicTrig,       \* history: times the total % 5 == 0 branch of swipe ran
    crossings,          \* history: times a ledger write raised the total to 10, 15, ...
    lastUpd,            \* history: the ledger read and the vector of the last updater write
    tcReported          \* history: a swipe response has said training_complete

dbVars == <<ledger, userEmb, catalog, itemEmb, profile>>

memVars == <<generation_status, user_candidates>>

cfgVars == <<base, call>>

genVars == <<bg, lastGen>>

embVars == <<gen>>

trigVars == <<writes, staleWrites, firstTrig, periodicTrig, crossings, lastUpd>>

histVars == <<writes, staleWrites, firstTrig, periodicTrig, crossings, lastUpd, tcReported>>

vars == <<ledger, userEmb, catalog, itemEmb, profile, generation_status,
          user_candidates, base, pc, loc, resp, nreq, bg, lastGen, gen, call,
          writes, staleWrites, firstTrig, periodicTrig, crossings, lastUpd,
          tcReported>>

RECURSIVE CountIn(_, _, _)
\* the number of rows of rows[1..n] whose status is in S
CountIn(rows, n, S) ==
    IF n = 0 THEN 0
    ELSE CountIn(rows, n - 1, S) + (IF rows[n] \in S THEN 1 ELSE 0)

RECURSIVE CountUpTo(_, _, _)
\* the number of ledger rows of items 1..n whose status is in S
CountUpTo(l, n, S) ==
    IF n = 0 THEN 0
    ELSE CountUpTo(l, n - 1, S) + CountIn(l[n], Len(l[n]), S)

\* get_user_items: every row of the user, as one read of the table
get_user_items == ledger

\* sum(1 for item in user_items if item["status"] == "swipe_right")
RightSwipes(l) == CountUpTo(l, NItems, {"swipe_right"})

\* len([ui for ui in user_items if ui["status"] in ["swipe_left", "swipe_right"]])
TotalSwipes(l) == CountUpTo(l, NItems, SwipedStatuses)

\* the item ids of the rows with a status in S, one entry per row
RECURSIVE IdsUpTo(_, _, _)
IdsUpTo(l, n, S) ==
    IF n = 0 THEN <<>>
    ELSE IdsUpTo(l, n - 1, S) \o [k \in 1..CountIn(l[n], Len(l[n]), S) |-> n]

IdsWith(l, S) == IdsUpTo(l, NItems, S)

\* the items that have a row with a status in S
ItemsWith(l, S) == {i \in Items : CountIn(l[i], Len(l[i]), S) > 0}

RECURSIVE SelectIds(_, _)
\* get_items_with_embeddings: the ids, in order, found in item and item_embedding
SelectIds(ids, keep) ==
    IF ids = <<>> THEN <<>>
    ELSE (IF Head(ids) \in keep THEN <<Head(ids)>> ELSE <<>>) \o SelectIds(Tail(ids), keep)

get_items_with_embeddings(ids) == SelectIds(ids, catalog \cap itemEmb)

(***************************************************************************)
(* reranker.py: the preference update and the ranking.                     *)
(***************************************************************************)
\* [item["embedding"] for item in items_with_embeddings]
EmbeddingsOf(ids) == [k \in 1..Len(ids) |-> ItemVec(ids[k])]

RECURSIVE Reinforce(_, _)
\* for embedding in liked_embeddings: user_vector += 0.1 * np.array(embedding)
Reinforce(v, embs) ==
    IF embs = <<>> THEN v
    ELSE Reinforce(VAdd(v, VScale(1, 10, Head(embs))), Tail(embs))

RECURSIVE Discourage(_, _)
\* for embedding in disliked_embeddings: user_vector -= 0.05 * np.array(embedding)
Discourage(v, embs) ==
    IF embs = <<>> THEN v
    ELSE Discourage(VSub(v, VScale(1, 20, Head(embs))), Tail(embs))

RECURSIVE ApplyFeedback(_, _, _)
\* update_user_embedding: the loop over feedback (1: reinforce, 0: discourage)
ApplyFeedback(v, feedback, embs) ==
    IF feedback = <<>> THEN v
    ELSE ApplyFeedback(IF Head(feedback) = 1 THEN VAdd(v, VScale(1, 10, Head(embs)))
                       ELSE IF Head(feedback) = 0 THEN VSub(v, VScale(1, 20, Head(embs)))
                       ELSE v,
                       Tail(feedback), Tail(embs))

\* the update with the signals exchanged: likes discourage, dislikes reinforce
update_away(v, feedback, embs) ==
    Normalize(ApplyFeedback(v, [i \in 1..Len(feedback) |-> 1 - feedback[i]], embs))

\* update_user_embedding(user_embedding, feedback, candidate_embeddings)
update_user_embedding(v, feedback, embs) == Normalize(ApplyFeedback(v, feedback, embs))

\* the vector update_user_embedding_from_swipes stores, from what it has read
UpdatedEmbedding(v, liked, disliked) ==
    Normalize(Discourage(Reinforce(v, liked), disliked))

RECURSIVE InsertByScore(_, _, _)
\* x placed after every element of the descending list whose score is >= its own
InsertByScore(x, sorted, u) ==
    IF sorted = <<>> THEN <<x>>
    ELSE IF Cosine(u, ItemVec(Head(sorted))) >= Cosine(u, ItemVec(x))
         THEN <<Head(sorted)>> \o InsertByScore(x, Tail(sorted), u)
         ELSE <<x>> \o sorted

\* the list in the order it was read
InReadOrder(ids, u) == ids

RECURSIVE SortByScore(_, _)
\* sorted(items, key=lambda x: x["score"], reverse=True): stable, descending
SortByScore(ids, u) ==
    IF ids = <<>> THEN <<>>
    ELSE InsertByScore(ids[Len(ids)], SortByScore(SubSeq(ids, 1, Len(ids) - 1), u), u)

\* lst[:n]
Take(lst, n) == SubSeq(lst, 1, IF Len(lst) < n THEN Len(lst) ELSE n)

\* get_personalized_candidates reaches cosine_similarity with a nan vector, which
\* raises ValueError; without a candidate that has both rows it returns [] before
RankRaises(embVec, userItems) ==
    /\ IsNaNVec(embVec)
    /\ get_items_with_embeddings(IdsWith(userItems, {"candidate"})) # <<>>

\* the list get_personalized_candidates returns, from what it has read
RankedCandidates(embVec, userItems, limit) ==
    Take(SortByScore(get_items_with_embeddings(IdsWith(userItems, {"candidate"})), embVec),
         limit)

(***************************************************************************)
(* Requests.                                                               *)
(***************************************************************************)
BlankLoc ==
    [item |-> 0, status |-> "", right |-> 0, mode |-> "",
     emb |-> NoEmb, ui |-> <<>>, newvec |-> <<>>, tcSeen |-> FALSE]

\* a response.  ranked, vec, swiped, rights and tcSeen are history: the ranked list
\* the request produced and the user vector it was ranked against, the items swiped
\* and the number of right swipes in the ledger at that moment, and whether
\* training_complete had been reported when it arrived
NoResp ==
    [kind |-> "none", code |-> 0, training_complete |-> FALSE,
     swipes_complete |-> FALSE, plan_generated |-> FALSE, candidates |-> <<>>,
     status |-> "", ranked |-> <<>>, vec |-> <<>>, swiped |-> {}, rights |-> 0,
     tcSeen |-> FALSE]

\* the items a request may name: the last edge swiped at the start, and two new ones
Targets == {i \in Items : base <= i /\ i <= base + 2}

\* total_swipes > SWIPE_COMPLETION_THRESHOLD and total_swipes % 5 == 0
IsPeriodic(n) == n > SWIPE_COMPLETION_THRESHOLD /\ n % 5 = 0

\* 1 when a ledger write raises the total onto a further multiple of 5
Crossing(before, after) ==
    IF TotalSwipes(after) > TotalSwipes(before) /\ IsPeriodic(TotalSwipes(after))
    THEN 1 ELSE 0

SwipeResp(p, code, tc, sc, pg) ==
    [NoResp EXCEPT !.kind = "swipe", !.code = code,
                   !.training_complete = tc, !.swipes_complete = sc,
                   !.plan_generated = pg, !.rights = RightSwipes(ledger),
                   !.tcSeen = loc[p].tcSeen]

\* raise HTTPException(status_code=500, ...)
SwipeError(p) == SwipeResp(p, 500, FALSE, FALSE, FALSE)

\* the end of swipe: the right-swipe limit check and the plain acknowledgement
SwipeFinal(p) ==
    SwipeResp(p, 200,
              loc[p].status = "swipe_right" /\ loc[p].right >= RIGHT_SWIPE_LIMIT,
              FALSE, FALSE)

\* slot p answers r and is free again
Answer(p, r) ==
    /\ resp' = r
    /\ pc' = [pc EXCEPT ![p] = "idle"]
    /\ loc' = [loc EXCEPT ![p] = BlankLoc]
    /\ tcReported' = (tcReported \/ (r.kind = "swipe" /\ r.training_complete))

\* slot p goes on to step next with locals l
Goto(p, next, l) ==
    /\ pc' = [pc EXCEPT ![p] = next]
    /\ loc' = [loc EXCEPT ![p] = l]
    /\ UNCHANGED <<resp, tcReported>>

\* a request arrives and takes the lowest free slot (the slots are interchangeable)
Arrives(p) ==
    /\ pc[p] = "idle"
    /\ \A q \in Procs : q < p => pc[q] # "idle"
    /\ nreq < MaxRequests
    /\ nreq' = nreq + 1

\* generate_three_month_plan(uuid, candidates)["success"]; "raise" when it raises:
\* without the plan agent generate_mock_plan indexes candidates[i % len(candidates)]
PlanResult(planAgent, cands) ==
    IF planAgent
    THEN (IF cands = <<>> THEN "no" ELSE "yes")
    ELSE (IF cands = <<>> THEN "raise" ELSE "yes")

\* what swipe answers at the first threshold once the plan call has returned or raised
FirstThresholdResp(p, planAgent, cands) ==
    [(IF PlanResult(planAgent, cands) = "raise" THEN SwipeError(p)
      ELSE SwipeResp(p, 200, FALSE, TRUE, PlanResult(planAgent, cands) = "yes"))
     EXCEPT !.ranked = cands, !.vec = IF cands = <<>> THEN <<>> ELSE loc[p].emb.vec,
            !.swiped = ItemsWith(ledger, SwipedStatuses)]

\* swipe, first call: update_user_item_status runs its UPDATE
SwipeUpdate(p) ==
    /\ Arrives(p)
    /\ \E i \in Targets, st \in RequestStatuses :
        /\ ledger' = [ledger EXCEPT ![i] = [k \in 1..Len(ledger[i]) |-> st]]
        /\ Goto(p, IF Len(ledger[i]) > 0 THEN "sw_right" ELSE "sw_insert",
                [BlankLoc EXCEPT !.item = i, !.status = st,
                                 !.tcSeen = tcReported])
    /\ crossings' = crossings + Crossing(ledger, ledger')
    /\ UNCHANGED <<userEmb, catalog, itemEmb, profile, memVars, cfgVars, embVars, genVars,
                   writes, staleWrites, firstTrig, periodicTrig, lastUpd>>

\* update_user_item_status: no row was updated, so it INSERTs one
SwipeInsert(p) ==
    /\ pc[p] = "sw_insert"
    /\ LET i == loc[p].item
       IN \/ /\ ledger' = [ledger EXCEPT ![i] = Append(@, loc[p].status)]
             /\ Goto(p, "sw_right", loc[p])
          \/ \* a unique key on (uuid, item_id) and a row another request has
             \* inserted meanwhile: update_user_item_status returns False
             /\ Len(ledger[i]) > 0
             /\ ledger' = ledger
             /\ Answer(p, SwipeError(p))
    /\ crossings' = crossings + Crossing(ledger, ledger')
    /\ UNCHANGED <<userEmb, catalog, itemEmb, profile, memVars, cfgVars, embVars, nreq, genVars,
                   writes, staleWrites, firstTrig, periodicTrig, lastUpd>>

\* right_swipes = count_right_swipes(req.user_uuid)
SwipeCountRight(p) ==
    /\ pc[p] = "sw_right"
    /\ Goto(p, "sw_total", [loc[p] EXCEPT !.right = RightSwipes(get_user_items)])
    /\ UNCHANGED <<dbVars, memVars, cfgVars, embVars, nreq, genVars, writes, staleWrites,
                   firstTrig, periodicTrig, crossings, lastUpd>>

\* total_swipes from a second get_user_items, and the branch on it
SwipeCountTotal(p) ==
    /\ pc[p] = "sw_total"
    /\ LET total == TotalSwipes(get_user_items)
       IN IF total = SWIPE_COMPLETION_THRESHOLD
          THEN /\ Goto(p, "upd_emb", [loc[p] EXCEPT !.mode = "first"])
               /\ firstTrig' = firstTrig + 1
               /\ UNCHANGED periodicTrig
          ELSE IF IsPeriodic(total)
          THEN /\ Goto(p, "upd_emb", [loc[p] EXCEPT !.mode = "periodic"])
               /\ periodicTrig' = periodicTrig + 1
               /\ UNCHANGED firstTrig
          ELSE /\ Answer(p, SwipeFinal(p))
               /\ UNCHANGED <<firstTrig, periodicTrig>>
    /\ UNCHANGED <<dbVars, memVars, cfgVars, embVars, nreq, genVars, writes, staleWrites,
                   crossings, lastUpd>>

\* what swipe does when the retriever workflow raises
SwipeOnException(p) ==
    IF loc[p].mode = "first"
    THEN \E planAgent \in BOOLEAN : Answer(p, FirstThresholdResp(p, planAgent, <<>>))
    ELSE Answer(p, SwipeFinal(p))

\* update_user_embedding_from_swipes: get_user_embedding
UpdReadEmbedding(p) ==
    /\ pc[p] = "upd_emb"
    /\ IF userEmb = NoEmb
       THEN SwipeOnException(p)
       ELSE Goto(p, "upd_items", [loc[p] EXCEPT !.emb = userEmb])
    /\ UNCHANGED <<dbVars, memVars, cfgVars, embVars, nreq, genVars, writes, staleWrites,
                   firstTrig, periodicTrig, crossings, lastUpd>>

\* update_user_embedding_from_swipes: get_user_items, get_items_with_embeddings
\* of the liked and of the disliked ids, and the new vector
UpdReadFeedback(p) ==
    /\ pc[p] = "upd_items"
    /\ LET ui == get_user_items
           liked == EmbeddingsOf(get_items_with_embeddings(IdsWith(ui, {"swipe_right"})))
           disliked == EmbeddingsOf(get_items_with_embeddings(IdsWith(ui, {"swipe_left"})))
       IN Goto(p, "upd_write",
               [loc[p] EXCEPT !.ui = ui,
                              !.newvec = UpdatedEmbedding(loc[p].emb.vec, liked, disliked)])
    /\ UNCHANGED <<dbVars, memVars, cfgVars, embVars, nreq, genVars, writes, staleWrites,
                   firstTrig, periodicTrig, crossings, lastUpd>>

\* the row upsert_user_embedding(uuid, updated_embedding, current_version + 1) stores
UpdatedRow(p) == [vec |-> loc[p].newvec, version |-> loc[p].emb.version + 1]

\* upsert_user_embedding: the rows get_user_embedding may read back afterwards (it
\* reads the row of the highest version).  A write of a lower version replaces the
\* stored row when the table is keyed by uuid and leaves it the latest when the
\* table is keyed by (uuid, version)
upsert_user_embedding(row) ==
    IF row.version < userEmb.version THEN {row, userEmb} ELSE {row}

\* update_user_embedding_from_swipes: upsert_user_embedding
UpdWrite(p) ==
    /\ pc[p] = "upd_write"
    /\ userEmb' \in upsert_user_embedding(UpdatedRow(p))
    /\ writes' = writes + 1
    /\ staleWrites' = staleWrites + (IF userEmb.version = loc[p].emb.version THEN 0 ELSE 1)
    /\ lastUpd' = [ui |-> loc[p].ui, vec |-> loc[p].newvec]
    /\ IF loc[p].mode = "first"
       THEN Goto(p, "gp_emb", loc[p])
       ELSE Answer(p, SwipeFinal(p))
    /\ UNCHANGED <<ledger, catalog, itemEmb, profile, memVars, cfgVars, embVars, nreq, genVars,
                   firstTrig, periodicTrig, crossings>>

\* get_personalized_candidates: get_user_embedding
RankReadEmbedding(p) ==
    /\ pc[p] = "gp_emb"
    /\ IF userEmb = NoEmb
       THEN SwipeOnException(p)
       ELSE Goto(p, "gp_rank", [loc[p] EXCEPT !.emb = userEmb])
    /\ UNCHANGED <<dbVars, memVars, cfgVars, embVars, nreq, genVars, writes, staleWrites,
                   firstTrig, periodicTrig, crossings, lastUpd>>

\* get_personalized_candidates: get_user_items, get_items_with_embeddings and the
\* ranking (cosine_similarity raises on nan); then generate_three_month_plan
RankAndPlan(p) ==
    /\ pc[p] = "gp_rank"
    /\ IF RankRaises(loc[p].emb.vec, get_user_items)
       THEN SwipeOnException(p)
       ELSE \E planAgent \in BOOLEAN :
                Answer(p, FirstThresholdResp(p, planAgent,
                    RankedCandidates(loc[p].emb.vec, get_user_items, PLAN_LIMIT)))
    /\ UNCHANGED <<dbVars, memVars, cfgVars, embVars, nreq, genVars, writes, staleWrites,
                   firstTrig, periodicTrig, crossings, lastUpd>>

(***************************************************************************)
(* Serving and candidate generation.                                       *)
(***************************************************************************)
\* the k-th item id counted from the last edge swiped at the start, wrapping around
Wrap(k) == ((base + k - 2) % NItems) + 1

\* the position of domain d in the domains list
DomainIndex(d) == CHOOSE k \in 1..Len(CONTENT_DOMAINS) : CONTENT_DOMAINS[k] = d

\* what retrieve_top_candidates(domain, ...) returns when its adapter answers: the
\* adapters do not look at the ledger, so "art" returns an item swiped already
DomainResults(d) == <<Wrap(DomainIndex(d))>>

\* the domain whose adapter returns item i ("" when none does)
DomainOf(i) ==
    IF \E d \in Domains : DomainResults(d) = <<i>>
    THEN CHOOSE d \in Domains : DomainResults(d) = <<i>>
    ELSE ""

\* the adapters that raise during one generation run: none, two of seven, or all
FailingSets == {{}, {"books", "movies"}, Domains}

RECURSIVE Dedup(_, _)
\* the results whose key is not in seen, first occurrences kept in order
Dedup(results, seen) ==
    IF results = <<>> THEN <<>>
    ELSE IF Head(results) \in seen THEN Dedup(Tail(results), seen)
         ELSE <<Head(results)>> \o Dedup(Tail(results), seen \cup {Head(results)})

\* a call of retrieve_top_candidates that has not been made
NoCall == [called |-> FALSE, raised |-> FALSE, items |-> <<>>]

\* retrieve_top_candidates(domain, ...): the adapter's results deduplicated and cut;
\* it has no except clause, so what the adapter raises (requests.get) leaves it
retrieve_top_candidates(d, failing) ==
    IF d \in failing
    THEN [called |-> TRUE, raised |-> TRUE, items |-> <<>>]
    ELSE [called |-> TRUE, raised |-> FALSE,
          items |-> Take(Dedup(DomainResults(d), {}), RETRIEVE_LIMIT)]

RECURSIVE Aggregate(_, _)
\* for domain in domains: try: all_candidates.extend(domain_candidates[:10])
\*                         except Exception: (the domain is skipped)
Aggregate(k, failing) ==
    IF k = 0 THEN <<>>
    ELSE Aggregate(k - 1, failing)
         \o (IF retrieve_top_candidates(CONTENT_DOMAINS[k], failing).raised THEN <<>>
             ELSE Take(retrieve_top_candidates(CONTENT_DOMAINS[k], failing).items,
                       DOMAIN_TAKE))

BlankBg == [pc |-> "free", failing |-> {}, cands |-> <<>>,
            calls |-> [d \in Domains |-> NoCall]]

NoGen == [via |-> "none", failing |-> {}, backendOk |-> TRUE, ok |-> FALSE,
          stored |-> <<>>]

RECURSIVE SeqToSet(_)
SeqToSet(q) == IF q = <<>> THEN {} ELSE {Head(q)} \cup SeqToSet(Tail(q))

\* get_candidates: the cache, the profile, the profile's vector from the embedding
\* backend (not the stored embedding), the ranking of the cached list, the ledger
\* counts (which select between two equal returns)
GetCandidates(p) ==
    /\ Arrives(p)
    /\ \E backendOk \in BOOLEAN :
        LET ui == get_user_items
            served ==
                IF user_candidates = <<>> \/ profile = "none" \/ ~backendOk
                THEN <<>>
                ELSE Take(SortByScore(user_candidates, ProfileVec), SERVE_LIMIT)
        IN Answer(p, [NoResp EXCEPT !.kind = "candidates", !.code = 200,
                                    !.candidates = served, !.ranked = served,
                                    !.vec = IF served = <<>> THEN <<>> ELSE ProfileVec,
                                    !.training_complete = FALSE,
                                    !.swiped = ItemsWith(ui, SwipedStatuses),
                                    !.rights = RightSwipes(ui)])
    /\ UNCHANGED <<dbVars, memVars, cfgVars, embVars, genVars, trigVars>>

StatusResp(st) == [NoResp EXCEPT !.kind = "status", !.code = 200, !.status = st]

\* get_generation_status: if user_uuid in generation_status
GsCheck(p) ==
    /\ Arrives(p)
    /\ IF generation_status # "absent"
       THEN Answer(p, StatusResp(generation_status))
       ELSE Goto(p, "gs_items", BlankLoc)
    /\ UNCHANGED <<dbVars, memVars, cfgVars, embVars, genVars, trigVars>>

\* get_generation_status: the user has candidate rows already
GsLedger(p) ==
    /\ pc[p] = "gs_items"
    /\ IF ItemsWith(get_user_items, {"candidate"}) # {}
       THEN /\ generation_status' = "complete"
            /\ Answer(p, StatusResp("complete"))
       ELSE /\ Goto(p, "gs_profile", loc[p])
            /\ UNCHANGED generation_status
    /\ UNCHANGED <<dbVars, user_candidates, cfgVars, embVars, nreq, genVars, trigVars>>

\* get_generation_status: a complete profile sets pending and starts
\* generate_in_background; every other case answers pending and stores nothing
GsProfile(p) ==
    /\ pc[p] = "gs_profile"
    /\ IF profile = "complete"
       THEN /\ generation_status' = "pending"
            /\ \E b \in BgIds, f \in FailingSets :
                /\ bg[b].pc = "free"
                /\ \A c \in BgIds : c < b => bg[c].pc # "free"
                /\ bg' = [bg EXCEPT ![b] = [BlankBg EXCEPT !.pc = "embed", !.failing = f]]
       ELSE UNCHANGED <<generation_status, bg>>
    /\ Answer(p, StatusResp("pending"))
    /\ UNCHANGED <<dbVars, user_candidates, cfgVars, embVars, nreq, lastGen, trigVars>>

\* the calls of retrieve_top_candidates one run of the domain loop makes
Calls(failing) == [d \in Domains |-> retrieve_top_candidates(d, failing)]

\* thread b ends its run and leaves the status as it is
BgStalls(b, st, backendOk, stored) ==
    /\ UNCHANGED generation_status
    /\ bg' = [bg EXCEPT ![b].pc = "done"]
    /\ lastGen' = [via |-> "background", failing |-> bg[b].failing,
                   backendOk |-> backendOk, ok |-> (st = "complete"),
                   stored |-> stored]

\* thread b ends its run with status st
BgEnds(b, st, backendOk, stored) ==
    /\ generation_status' = st
    /\ bg' = [bg EXCEPT ![b].pc = "done",
                        ![b].calls = IF bg[b].pc = "retrieve"
                                     THEN Calls(bg[b].failing) ELSE @]
    /\ lastGen' = [via |-> "background", failing |-> bg[b].failing,
                   backendOk |-> backendOk, ok |-> (st = "complete"),
                   stored |-> stored]

\* generate_in_background: generate_user_embedding(user_uuid, store_in_db=False)
\* opens the file named by the uuid (load_user_profile) and calls the backend
BgEmbed(b) ==
    /\ bg[b].pc = "embed"
    /\ \E outcome \in {"ok", "no_file", "backend"} :
        IF outcome = "ok"
        THEN /\ bg' = [bg EXCEPT ![b].pc = "retrieve"]
             /\ UNCHANGED <<generation_status, lastGen>>
        ELSE BgEnds(b, "error", outcome # "backend", <<>>)
    /\ UNCHANGED <<dbVars, user_candidates, cfgVars, embVars, pc, loc, resp, nreq, histVars>>

\* generate_in_background: the loop over the domains
BgRetrieve(b) ==
    /\ bg[b].pc = "retrieve"
    /\ LET all == Aggregate(Len(CONTENT_DOMAINS), bg[b].failing)
       IN IF all = <<>>
          THEN BgEnds(b, "error", TRUE, <<>>)
          ELSE /\ bg' = [bg EXCEPT ![b].pc = "store", ![b].cands = all,
                                   ![b].calls = Calls(bg[b].failing)]
               /\ UNCHANGED <<generation_status, lastGen>>
    /\ UNCHANGED <<dbVars, user_candidates, cfgVars, embVars, pc, loc, resp, nreq, histVars>>

\* generate_in_background: batch_generate_embeddings stores the embeddings that
\* are missing; then the cache and the status are set
BgStore(b) ==
    /\ bg[b].pc = "store"
    /\ \E backendOk \in BOOLEAN :
        IF backendOk
        THEN /\ itemEmb' = itemEmb \cup SeqToSet(bg[b].cands)
             /\ user_candidates' = Take(bg[b].cands, CACHE_LIMIT)
             /\ BgEnds(b, "complete", TRUE, Take(bg[b].cands, CACHE_LIMIT))
        ELSE /\ BgEnds(b, "error", FALSE, <<>>)
             /\ UNCHANGED <<itemEmb, user_candidates>>
    /\ UNCHANGED <<ledger, userEmb, catalog, profile, cfgVars, embVars, pc, loc, resp, nreq,
                   histVars>>

\* generate_candidates: get_user_profile, generate_user_embedding, and the call
\* retrieve_top_candidates(user_embedding, user_profile), which lacks the category
\* argument and raises TypeError before any adapter is reached: HTTP 500 with the
\* exception's text as detail, whatever the profile's complete flag is
GenerateCandidates(p) ==
    /\ Arrives(p)
    /\ \E f \in FailingSets, backendOk \in BOOLEAN :
        /\ lastGen' = [via |-> "endpoint", failing |-> f, backendOk |-> backendOk,
                       ok |-> FALSE, stored |-> <<>>]
        /\ Answer(p, [NoResp EXCEPT !.kind = "generate", !.code = 500,
                                    !.status = IF backendOk THEN "TypeError"
                                               ELSE "backend"])
    /\ UNCHANGED <<dbVars, memVars, cfgVars, embVars, bg, trigVars>>

\* generate_user_embedding(user_uuid), store_in_db = True: the existing embedding
\* is returned when there is one
GenEmbCheck(g) ==
    /\ gen[g] = "idle"
    /\ \A h \in GenIds : h < g => gen[h] # "idle"
    /\ gen' = [gen EXCEPT ![g] = IF userEmb # NoEmb THEN "idle" ELSE "embed"]
    /\ UNCHANGED <<dbVars, memVars, cfgVars, genVars, pc, loc, resp, nreq, histVars>>

\* generate_user_embedding: the backend call, then
\* upsert_user_embedding(user_uuid, embedding, version=1)
GenEmbWrite(g) ==
    /\ gen[g] = "embed"
    /\ gen' = [gen EXCEPT ![g] = "idle"]
    /\ \E backendOk \in BOOLEAN :
        IF backendOk
        THEN userEmb' \in upsert_user_embedding([vec |-> ProfileVec, version |-> InitVersion])
        ELSE UNCHANGED userEmb
    /\ UNCHANGED <<ledger, catalog, itemEmb, profile, memVars, cfgVars, genVars,
                   pc, loc, resp, nreq, histVars>>

(***************************************************************************)
(* The initial states: a fresh api process (empty globals) over a store    *)
(* that earlier sessions have filled.                                      *)
(***************************************************************************)
\* the numbers of swiped edges a behaviour may start from: one short of the two
\* thresholds of the swipe handler, and one that holds RIGHT_SWIPE_LIMIT right swipes
BaseCounts ==
    {SWIPE_COMPLETION_THRESHOLD - 1, 2 * SWIPE_COMPLETION_THRESHOLD - 1,
     RIGHT_SWIPE_LIMIT + 1}

\* the ledger after b swipes: item 1 swiped left, items 2..b swiped right
InitLedger(b) ==
    [i \in Items |-> IF i > b THEN <<>>
                     ELSE IF i = 1 THEN <<"swipe_left">> ELSE <<"swipe_right">>]

\* no call of the preference update on given arguments is under way
NoUpdate == [pc |-> "none", v |-> <<>>, a |-> <<>>, ka |-> 0, b |-> <<>>, kb |-> 0,
             out |-> <<>>, swiped |-> <<>>, raised |-> "none", items |-> {},
             before |-> NoEmb, limit |-> 0]

\* the user_profile rows a user asking for candidates can have
Profiles == {"complete", "incomplete"}

\* the handlers, threads and counters at the start, the user's stored row and profile
HandlersInit(embs, profiles) ==
    /\ userEmb \in embs
    /\ profile \in profiles
    /\ pc = [p \in Procs |-> "idle"]
    /\ loc = [p \in Procs |-> BlankLoc]
    /\ resp = NoResp
    /\ nreq = 0
    /\ bg = [b \in BgIds |-> BlankBg]
    /\ lastGen = NoGen
    /\ gen = [g \in GenIds |-> "idle"]
    /\ writes = 0
    /\ staleWrites = 0
    /\ firstTrig = 0
    /\ periodicTrig = 0
    /\ crossings = 0
    /\ lastUpd = [ui |-> <<>>, vec |-> <<>>]
    /\ tcReported = FALSE

\* the process at its start: no status and no cached list for the user
ProcessInit(embs, profiles) ==
    /\ generation_status = "absent"
    /\ user_candidates = <<>>
    /\ HandlersInit(embs, profiles)

\* the service at its start: the swiped edges, the stored row, the profile
ServiceInit(bases, embs, profiles) ==
    /\ base \in bases
    /\ ledger = InitLedger(base)
    /\ catalog = Items
    /\ itemEmb = {i \in Items : i <= base + 1}
    /\ ProcessInit(embs, profiles)

Init ==
    /\ ServiceInit(BaseCounts, {NoEmb, [vec |-> ProfileVec, version |-> InitVersion]},
                   {"complete"})
    /\ call = NoUpdate

Next ==
    \/ \E g \in GenIds :
        \/ GenEmbCheck(g)
        \/ GenEmbWrite(g)
    \/ \E b \in BgIds :
        \/ BgEmbed(b)
        \/ BgRetrieve(b)
        \/ BgStore(b)
    \/ \E p \in Procs :
        \/ SwipeUpdate(p)
        \/ SwipeInsert(p)
        \/ SwipeCountRight(p)
        \/ SwipeCountTotal(p)
        \/ UpdReadEmbedding(p)
        \/ UpdReadFeedback(p)
        \/ UpdWrite(p)
        \/ RankReadEmbedding(p)
        \/ RankAndPlan(p)
        \/ GetCandidates(p)
        \/ GsCheck(p)
        \/ GsLedger(p)
        \/ GsProfile(p)
        \/ GenerateCandidates(p)

Spec == Init /\ [][Next]_vars

(***************************************************************************)
(* Candidate generation alone, for a user whose profile may be incomplete: *)
(* the swipe handler and the storing generate_user_embedding neither read  *)
(* nor write the status table, the threads or the profile.                 *)
(***************************************************************************)
InitGen ==
    /\ ServiceInit({SWIPE_COMPLETION_THRESHOLD - 1}, {NoEmb}, Profiles)
    /\ call = NoUpdate

NextGen ==
    \/ \E b \in BgIds : BgEmbed(b) \/ BgRetrieve(b) \/ BgStore(b)
    \/ \E p \in Procs :
        \/ GetCandidates(p)
        \/ GsCheck(p)
        \/ GsLedger(p)
        \/ GsProfile(p)
        \/ GenerateCandidates(p)

SpecGen == InitGen /\ [][NextGen]_vars

\* a started thread runs on: the scheduler is fair and every external call of
\* generate_in_background returns or raises
ThreadsRun ==
    \A b \in BgIds :
        WF_vars(BgEmbed(b)) /\ WF_vars(BgRetrieve(b)) /\ WF_vars(BgStore(b))

FairSpecGen == SpecGen /\ ThreadsRun

(***************************************************************************)
(* Serving after a finished generation: the cache holds the generated      *)
(* list, the user swipes past a threshold and asks for candidates.         *)
(***************************************************************************)
\* what generate_in_background caches when every adapter answers
GeneratedList == Take(Aggregate(Len(CONTENT_DOMAINS), {}), CACHE_LIMIT)

InitServe ==
    /\ base = SWIPE_COMPLETION_THRESHOLD - 1
    /\ ledger = InitLedger(base)
    /\ catalog = Items
    /\ itemEmb = {i \in Items : i <= base + 1} \cup SeqToSet(GeneratedList)
    /\ generation_status = "complete"
    /\ user_candidates = GeneratedList
    /\ HandlersInit({[vec |-> ProfileVec, version |-> InitVersion]}, {"complete"})
    /\ call = NoUpdate

NextServe ==
    \E p \in Procs :
        \/ SwipeUpdate(p)
        \/ SwipeInsert(p)
        \/ SwipeCountRight(p)
        \/ SwipeCountTotal(p)
        \/ UpdReadEmbedding(p)
        \/ UpdReadFeedback(p)
        \/ UpdWrite(p)
        \/ RankReadEmbedding(p)
        \/ RankAndPlan(p)
        \/ GetCandidates(p)

SpecServe == InitServe /\ [][NextServe]_vars

(***************************************************************************)
(* The embedding writers and the preference update on given vectors: the   *)
(* embedding backend's vectors are inputs, stored as they come.            *)
(***************************************************************************)
\* the vectors the embedding backend returns for a profile
UserVecs == {ProfileVec, Vec(Scale, 0), Vec(0 - Scale, 0), Vec(3 * Scale, 4 * Scale)}

\* the vectors the embedding backend returns for an item's text
FeedbackVecs == {ItemVec(0), ItemVec(1), ItemVec(2), ItemVec(3), Vec(0 - 10 * Scale, 0)}

\* k copies of x
Copies(x, k) == [i \in 1..k |-> x]

\* the calls: the profile's vector v, ka liked items of vector a, kb disliked of b
UpdateCalls ==
    {[NoUpdate EXCEPT !.pc = "ready", !.v = v, !.a = a, !.ka = ka, !.b = b, !.kb = kb] :
        v \in UserVecs, a \in FeedbackVecs, ka \in 0..MaxLikes,
        b \in FeedbackVecs, kb \in 0..MaxDislikes}

InitUpdate ==
    /\ ServiceInit({SWIPE_COMPLETION_THRESHOLD - 1}, {NoEmb}, {"complete"})
    /\ call \in UpdateCalls

\* generate_user_embedding(user_uuid, store_in_db=True): no stored row, the backend
\* call, and the upsert of its vector with version 1
UeGenerate ==
    /\ call.pc = "ready"
    /\ \E backendOk \in BOOLEAN :
        IF backendOk
        THEN /\ userEmb' \in upsert_user_embedding([vec |-> call.v, version |-> InitVersion])
             /\ call' = [call EXCEPT !.pc = "generated"]
        ELSE /\ UNCHANGED userEmb
             /\ call' = [call EXCEPT !.pc = "generated", !.raised = "backend"]
    /\ UNCHANGED <<ledger, catalog, itemEmb, profile, memVars, base, pc, loc, resp, nreq, genVars, embVars,
                   histVars>>

\* batch_generate_embeddings(candidates, store_in_db=True): for each item without a
\* stored embedding, generate_text_embedding and upsert_item_embedding
UeBatch ==
    /\ call.pc = "generated"
    /\ call' = [call EXCEPT !.pc = "embedded",
                            !.items = (IF call.ka > 0 THEN {call.a} ELSE {})
                                      \cup (IF call.kb > 0 THEN {call.b} ELSE {})]
    /\ UNCHANGED <<dbVars, memVars, base, pc, loc, resp, nreq, genVars, embVars, histVars>>

\* update_user_embedding(v, feedback, candidate_embeddings)
UeUpdate ==
    /\ call.pc = "embedded"
    /\ call' = [call EXCEPT !.pc = "returned", !.raised = "none",
                            !.out = update_user_embedding(
                                        call.v,
                                        Copies(1, call.ka) \o Copies(0, call.kb),
                                        Copies(call.a, call.ka) \o Copies(call.b, call.kb))]
    /\ UNCHANGED <<dbVars, memVars, base, pc, loc, resp, nreq, genVars, embVars, histVars>>

\* update_user_embedding_from_swipes(user_uuid) on the stored row and the stored
\* embeddings of the liked and the disliked items
UeFromSwipes ==
    /\ call.pc = "returned"
    /\ IF userEmb = NoEmb
       THEN /\ call' = [call EXCEPT !.pc = "stored", !.raised = "ValueError",
                                    !.before = userEmb]
            /\ UNCHANGED userEmb
       ELSE LET updated == UpdatedEmbedding(userEmb.vec, Copies(call.a, call.ka),
                                            Copies(call.b, call.kb))
            IN /\ userEmb' \in upsert_user_embedding(
                                   [vec |-> updated, version |-> userEmb.version + 1])
               /\ call' = [call EXCEPT !.pc = "stored", !.raised = "none",
                                       !.before = userEmb, !.swiped = updated]
    /\ UNCHANGED <<ledger, catalog, itemEmb, profile, memVars, base, pc, loc, resp, nreq, genVars, embVars,
                   histVars>>

NextUpdate == UeGenerate \/ UeBatch \/ UeUpdate \/ UeFromSwipes

SpecUpdate == InitUpdate /\ [][NextUpdate]_vars

(***************************************************************************)
(* get_personalized_candidates on given tables: candidate rows of some of  *)
(* the first MaxRank items, some of them without a stored embedding or a   *)
(* catalog row, and a stored user embedding or none.                       *)
(***************************************************************************)
\* the ledger with one candidate row for each item of C
CandidateLedger(C) == [i \in Items |-> IF i \in C THEN <<"candidate">> ELSE <<>>]

InitRank ==
    /\ base = 0
    /\ ProcessInit({NoEmb, [vec |-> NaNVec, version |-> InitVersion + 1]}
                       \cup {[vec |-> v, version |-> InitVersion] : v \in UserVecs},
                   {"complete"})
    /\ \E C \in SUBSET (1..MaxRank), E \in SUBSET (1..3), G \in SUBSET {1} :
        /\ ledger = CandidateLedger(C)
        /\ itemEmb = Items \ E
        /\ catalog = Items \ G
    /\ call \in {[NoUpdate EXCEPT !.pc = "rank", !.limit = k] : k \in 1..MaxLimit}

\* get_personalized_candidates(user_uuid, limit)
RankCall ==
    /\ call.pc = "rank"
    /\ call' = IF userEmb = NoEmb \/ RankRaises(userEmb.vec, get_user_items)
               THEN [call EXCEPT !.pc = "ranked", !.raised = "ValueError"]
               ELSE [call EXCEPT !.pc = "ranked",
                                 !.out = RankedCandidates(userEmb.vec, get_user_items,
                                                          call.limit)]
    /\ UNCHANGED <<dbVars, memVars, base, pc, loc, resp, nreq, genVars, embVars, histVars>>

NextRank == RankCall

SpecRank == InitRank /\ [][NextRank]_vars

(***************************************************************************)
(* retrieve_top_candidates' deduplication on a given adapter result.       *)
(* Strings are sequences of characters here, so that the key, the          *)
(* concatenation of the title and the source_url, is computed.             *)
(***************************************************************************)
Titles == {<<>>, <<"t">>, <<"t", "h">>}

SourceUrls == {<<"1">>, <<"h", "1">>}

\* the items an adapter returns: item.get("title", ""), item.get("source_url", "")
AdapterItems == [title : Titles, source_url : SourceUrls]

ListsUpTo(S, n) == UNION {[1..k -> S] : k \in 0..n}

\* key = item.get("title", "") + item.get("source_url", "")
DedupKey(item) == item.title \o item.source_url

\* the loop over results with the set seen of keys
RECURSIVE UniqueResults(_, _)
UniqueResults(results, seen) ==
    IF results = <<>> THEN <<>>
    ELSE LET key == DedupKey(Head(results))
         IN  IF key \in seen
             THEN UniqueResults(Tail(results), seen)
             ELSE <<Head(results)>> \o UniqueResults(Tail(results), seen \cup {key})

InitRetrieve ==
    /\ base = 0
    /\ ProcessInit({NoEmb}, {"complete"})
    /\ ledger = CandidateLedger({})
    /\ itemEmb = Items
    /\ catalog = Items
    /\ call \in {[pc |-> "retrieve", results |-> r, out |-> <<>>] :
                      r \in ListsUpTo(AdapterItems, MaxResults)}

\* the deduplication and the cut of retrieve_top_candidates on call.results
RetrieveCall ==
    /\ call.pc = "retrieve"
    /\ call' = [call EXCEPT !.pc = "retrieved",
                            !.out = Take(UniqueResults(call.results, {}), RETRIEVE_LIMIT)]
    /\ UNCHANGED <<dbVars, memVars, base, pc, loc, resp, nreq, genVars, embVars, histVars>>

NextRetrieve == RetrieveCall

SpecRetrieve == InitRetrieve /\ [][NextRetrieve]_vars

(***************************************************************************)
(* The item pipeline on a given candidate list: batch_generate_embeddings  *)
(* with and without the store, the catalog and ledger rows the main.py     *)
(* script writes for the enriched candidates, and the item_id a swipe      *)
(* writes.  A URL is the sequence of its scheme and its remainder; an      *)
(* item_id is either the digest of a URL or a string taken as it is.       *)
(***************************************************************************)
HttpUrl == <<"http", "://a">>

OtherUrl == <<"spotify", ":b">>

CandidateUrls == {<<>>, HttpUrl, OtherUrl}

\* the first 12 hex characters of the SHA-256 digest of url
generate_item_id(url) == [sha |-> TRUE, of |-> url]

\* a string used as an item_id without hashing
RawId(s) == [sha |-> FALSE, of |-> s]

\* item_id.startswith('http')
StartsWithHttp(s) == Len(s) > 0 /\ s[1] = "http"

Candidates == [source_url : CandidateUrls, title : {"", "T"}, description : {"", "D"}]

\* the non-empty parts of the item joined; the empty sequence is the empty text
make_embedding_text(item) == SelectSeq(<<item.title, item.description>>, LAMBDA part : part # "")

NoVec == <<>>

\* the backend's vector for a text
generate_text_embedding(text) == [of |-> text]

\* the row of item_id in the embedding store, or none
EmbeddingRow(store, item_id) ==
    IF \E row \in store : row.item_id = item_id
    THEN (CHOOSE row \in store : row.item_id = item_id).embedding
    ELSE NoVec

upsert_item_embedding(store, item_id, embedding) ==
    {row \in store : row.item_id # item_id}
        \cup {[item_id |-> item_id, embedding |-> embedding]}

\* a call that never looks the store up
no_lookup(store, item_id, store_in_db) == NoVec

\* existing_embedding = get_item_embedding(item_id) if store_in_db else None
get_item_embedding(store, item_id, store_in_db) ==
    IF store_in_db THEN EmbeddingRow(store, item_id) ELSE NoVec

\* enriched_item = item.copy() with the embedding and the item_id
Enriched(item, embedding, item_id) ==
    [source_url |-> item.source_url, title |-> item.title,
     description |-> item.description, embedding |-> embedding, item_id |-> item_id]

\* the state of one call: the store, the list built so far, the item_ids the
\* backend was invoked for and those it returned a vector for, and whether it raised
BatchStart(store, invoked, returned) ==
    [store |-> store, out |-> <<>>, invoked |-> invoked, returned |-> returned,
     raised |-> FALSE]

\* the loop of batch_generate_embeddings; with down the backend raises when invoked
RECURSIVE batch_generate_embeddings(_, _, _, _)
batch_generate_embeddings(candidates, store_in_db, down, st) ==
    IF candidates = <<>> \/ st.raised THEN st
    ELSE LET item == Head(candidates)
             item_id == generate_item_id(item.source_url)
             existing_embedding == get_item_embedding(st.store, item_id, store_in_db)
             text == make_embedding_text(item)
             embedding == generate_text_embedding(text)
         IN  IF item.source_url = <<>>
             THEN batch_generate_embeddings(Tail(candidates), store_in_db, down, st)
             ELSE IF existing_embedding # NoVec
             THEN batch_generate_embeddings(Tail(candidates), store_in_db, down,
                      [st EXCEPT !.out = Append(@, Enriched(item, existing_embedding, item_id))])
             ELSE IF text = <<>>
             THEN batch_generate_embeddings(Tail(candidates), store_in_db, down, st)
             ELSE IF down
             THEN [st EXCEPT !.invoked = Append(@, item_id), !.out = <<>>, !.raised = TRUE]
             ELSE batch_generate_embeddings(Tail(candidates), store_in_db, down,
                      [st EXCEPT !.invoked = Append(@, item_id),
                                 !.returned = Append(@, item_id),
                                 !.store = IF store_in_db
                                           THEN upsert_item_embedding(@, item_id, embedding)
                                           ELSE @,
                                 !.out = Append(@, Enriched(item, embedding, item_id))])

InitIngest ==
    /\ base = 0
    /\ ProcessInit({NoEmb}, {"complete"})
    /\ ledger = CandidateLedger({})
    /\ itemEmb = Items
    /\ catalog = Items
    /\ call \in {[pc |-> "batch", candidates |-> c, flags |-> <<>>, before |-> {},
                   store |-> {}, out |-> <<>>, invoked |-> <<>>, returned |-> <<>>,
                   raised |-> FALSE, items |-> {}, user_item |-> {}] :
                      c \in ListsUpTo(Candidates, MaxBatch)}

\* one call batch_generate_embeddings(candidates, store_in_db)
BatchCall ==
    /\ call.pc = "batch"
    /\ Len(call.flags) < MaxCalls
    /\ \E store_in_db \in BOOLEAN, down \in BOOLEAN :
        LET st == batch_generate_embeddings(call.candidates, store_in_db, down,
                      BatchStart(call.store, call.invoked, call.returned))
        IN  call' = [call EXCEPT !.flags = Append(@, store_in_db),
                                !.before = call.store,
                                !.store = st.store,
                                !.out = st.out,
                                !.invoked = st.invoked,
                                !.returned = st.returned,
                                !.raised = st.raised]
    /\ UNCHANGED <<dbVars, memVars, base, pc, loc, resp, nreq, genVars, embVars, histVars>>

\* main.py after top_candidates = batch_generate_embeddings(top_candidates):
\* upsert_item and upsert_user_item for every enriched candidate
LogCandidates ==
    /\ call.pc = "batch"
    /\ call.flags # <<>>
    /\ call.flags[Len(call.flags)]
    /\ ~call.raised
    /\ call' = [call EXCEPT
           !.pc = "logged",
           !.items = @ \cup {[item_id |-> RawId(call.out[k].source_url),
                              source_url |-> call.out[k].source_url] :
                                 k \in 1..Len(call.out)},
           !.user_item = @ \cup {RawId(call.out[k].source_url) : k \in 1..Len(call.out)}]
    /\ UNCHANGED <<dbVars, memVars, base, pc, loc, resp, nreq, genVars, embVars, histVars>>

\* the item_id the swipe endpoint writes for the item_id of the request
SwipeItemId(item_id) ==
    IF ~item_id.sha /\ StartsWithHttp(item_id.of)
    THEN generate_item_id(item_id.of)
    ELSE item_id

\* a swipe on a candidate of the list, named by its source_url or by its item_id
SwipeCall ==
    /\ call.pc \in {"batch", "logged"}
    /\ \E k \in 1..Len(call.candidates) :
        /\ call.candidates[k].source_url # <<>>
        /\ \E item_id \in {RawId(call.candidates[k].source_url),
                             generate_item_id(call.candidates[k].source_url)} :
            call' = [call EXCEPT !.pc = "swiped",
                                 !.user_item = @ \cup {SwipeItemId(item_id)}]
    /\ UNCHANGED <<dbVars, memVars, base, pc, loc, resp, nreq, genVars, embVars, histVars>>

NextIngest == BatchCall \/ LogCandidates \/ SwipeCall

SpecIngest == InitIngest /\ [][NextIngest]_vars

(***************************************************************************)
(* The claims.                                                             *)
(***************************************************************************)
\* no request is being served
Quiescent == \A p \in Procs : pc[p] = "idle"

\* slot p makes its upsert_user_embedding call in this step
WritesNow(p) == pc[p] = "upd_write" /\ pc'[p] # "upd_write"

\* C1: a second update_user_embedding_from_swipes call that reads the vector the
\* first call stored and a ledger equal to the one the first call read leaves the
\* stored vector as the first call stored it.
C1_RepeatedUpdateIsNoOp ==
    [][\A p \in Procs :
          (/\ WritesNow(p)
           /\ writes > 0
           /\ userEmb.vec = lastUpd.vec
           /\ loc[p].emb = userEmb
           /\ loc[p].ui = lastUpd.ui
           /\ ledger = lastUpd.ui)
          => userEmb'.vec = userEmb.vec]_vars

\* C2: no update_user_embedding_from_swipes call stores its result after the
\* stored version has moved on from the version the call read: of two calls that
\* read the same version, at most one stores.
C2_StaleWriteFails == staleWrites = 0

\* C3: the stored version is the initial version plus the number of updater
\* writes that have succeeded.
C3_VersionCountsWrites ==
    userEmb # NoEmb => userEmb.version = InitVersion + writes

\* C4: the first-threshold action runs exactly once: never twice, and once the
\* requests that raised the total from below 5 to 5 or more are answered, once.
C4_FirstThresholdOnce ==
    /\ firstTrig <= 1
    /\ (/\ Quiescent
        /\ base < SWIPE_COMPLETION_THRESHOLD
        /\ TotalSwipes(ledger) >= SWIPE_COMPLETION_THRESHOLD) => firstTrig = 1

\* C5: once the requests are answered, every ledger write that raised the total
\* onto a further multiple of 5 has had its update_user_embedding_from_swipes call.
C5_EveryCrossingUpdates == Quiescent => periodicTrig >= crossings

\* C7: a swipe acknowledged after some swipe response has reported
\* training_complete reports training_complete too.
C7_TrainingCompleteTerminal ==
    (resp.kind = "swipe" /\ resp.code = 200 /\ resp.tcSeen) => resp.training_complete

\* C8: no step turns an edge that holds swipe_left or swipe_right into an edge
\* that holds candidate.
C8_SwipedNeverCandidate ==
    [][\A i \in Items :
          i \in ItemsWith(ledger, SwipedStatuses) => i \notin ItemsWith(ledger', {"candidate"})]_vars

\* C6: a get_candidates response sent while the ledger holds at least
\* RIGHT_SWIPE_LIMIT right swipes carries no candidates and training_complete.
C6_LimitStopsServing ==
    (resp.kind = "candidates" /\ resp.rights >= RIGHT_SWIPE_LIMIT)
    => (resp.candidates = <<>> /\ resp.training_complete)

\* C9: no ranked list, of get_personalized_candidates or of get_candidates,
\* contains an item that the ledger read with it holds as swiped.
C9_NoSwipedItemRanked ==
    \A k \in 1..Len(resp.ranked) : resp.ranked[k] \notin resp.swiped

\* C10: a generation run during which the adapters of some but not all domains
\* raise, and the embedding backend answers, ends in success with a non-empty
\* stored list drawn from the domains whose adapters answered.
C10_PartialFailureStillSucceeds ==
    (/\ lastGen.via # "none"
     /\ lastGen.backendOk
     /\ lastGen.failing # {}
     /\ lastGen.failing # Domains)
    => (/\ lastGen.ok
        /\ lastGen.stored # <<>>
        /\ \A k \in 1..Len(lastGen.stored) :
              DomainOf(lastGen.stored[k]) \in Domains \ lastGen.failing)

\* C11: a retrieve_top_candidates call whose adapter raises returns an empty
\* list to its caller and raises nothing.
C11_RetrieveAbsorbsAdapterFailure ==
    \A b \in BgIds : \A d \in Domains :
        (bg[b].calls[d].called /\ d \in bg[b].failing)
        => (~bg[b].calls[d].raised /\ bg[b].calls[d].items = <<>>)

\* C12: once a candidate generation run has ended in success, the user has a
\* stored embedding.
C12_GenerationStoresEmbedding == lastGen.ok => userEmb # NoEmb

\* C13: no step lowers the version of the stored user embedding.
C13_VersionNeverDecreases == [][userEmb'.version >= userEmb.version]_vars

\* C14: when the feedback cancels the vector (the adjusted vector has zero norm), the
\* update signals DegenerateEmbeddingError and the stored row is left as it was; no
\* returned or stored vector has a non-finite component.
C14_DegenerateSignalsError ==
    LET adjusted(v) == Discourage(Reinforce(v, Copies(call.a, call.ka)),
                                  Copies(call.b, call.kb))
    IN /\ call.pc \in {"returned", "stored"}
          => /\ ~IsNaNVec(call.out)
             /\ Norm(adjusted(call.v)) = 0 => call.raised = "DegenerateEmbeddingError"
       /\ (call.pc = "stored" /\ call.before # NoEmb)
          => /\ ~IsNaNVec(userEmb.vec)
             /\ Norm(adjusted(call.before.vec)) = 0
                => (call.raised = "DegenerateEmbeddingError" /\ userEmb = call.before)

\* C15: update_user_embedding(v, [], []) returns v, for every vector v that
\* generate_user_embedding can have stored.
C15_EmptyFeedbackIsIdentity ==
    (call.pc \in {"returned", "stored"} /\ call.ka = 0 /\ call.kb = 0)
    => call.out = call.v

\* C16: every stored user embedding and every stored item embedding has unit norm.
C16_StoredVectorsAreUnit ==
    /\ userEmb # NoEmb => (~IsNaNVec(userEmb.vec) /\ Norm(userEmb.vec) = Scale)
    /\ \A e \in call.items : Norm(e) = Scale

\* the net feedback of the call: 0.1 * (sum of the liked) - 0.05 * (sum of the disliked)
NetFeedback ==
    Discourage(Reinforce(Vec(0, 0), Copies(call.a, call.ka)), Copies(call.b, call.kb))

\* C19 (as stated): the updated vector is strictly closer than v to every liked vector
\* and strictly farther than v from every disliked vector.
C19_StrictlyTowardLikedAwayFromDisliked ==
    (call.pc \in {"returned", "stored"} /\ call.ka + call.kb > 0)
    => IF IsNaNVec(call.out) THEN FALSE
       ELSE /\ call.ka > 0 => Cosine(call.out, call.a) > Cosine(call.v, call.a)
            /\ call.kb > 0 => Cosine(call.out, call.b) < Cosine(call.v, call.b)

\* C19 (amended): when neither the net feedback nor the adjusted vector is zero, the
\* updated vector is at least as close to the net feedback as v was, up to the
\* rounding of the arithmetic.
C19_TowardNetFeedback ==
    (call.pc \in {"returned", "stored"} /\ Norm(NetFeedback) # 0
        /\ ~IsNaNVec(call.out))
    => Cosine(call.out, NetFeedback) + Ulp >= Cosine(call.v, NetFeedback)

\* C19: two likes and three dislikes of different vectors moved v toward the net
\* feedback and away from a liked vector
C19_Witness ==
    /\ call.pc = "returned" /\ call.ka = MaxLikes /\ call.kb = MaxDislikes
    /\ call.a # call.b /\ Norm(NetFeedback) # 0 /\ ~IsNaNVec(call.out)
    /\ Cosine(call.out, NetFeedback) > Cosine(call.v, NetFeedback)
    /\ Cosine(call.out, call.a) < Cosine(call.v, call.a)

\* C17: generate_candidates for a user whose profile is not complete changes neither
\* the catalog nor the ledger and answers with a profile-incomplete error.
C17_IncompleteProfileIsRefused ==
    [][(resp'.kind = "generate" /\ resp' # resp /\ profile # "complete")
       => (catalog' = catalog /\ ledger' = ledger
           /\ resp'.status = "ProfileIncompleteError")]_vars

\* C20: a status set to pending by get_generation_status with a thread started is
\* followed by complete or error.
C20_GenerationEnds ==
    (generation_status = "pending" /\ \E b \in BgIds : bg[b].pc \notin {"free", "done"})
    ~> (generation_status \in {"complete", "error"})

\* C20: a thread that get_generation_status started has run to its end
C20_Witness ==
    /\ generation_status \in {"complete", "error"}
    /\ \E b \in BgIds : bg[b].pc = "done"
    /\ lastGen.via = "background"

\* the list is in non-increasing order of cosine similarity to u
ScoresDescend(lst, u) ==
    Len(lst) > 1 => \A k \in 1..(Len(lst) - 1) :
        Cosine(u, ItemVec(lst[k])) >= Cosine(u, ItemVec(lst[k + 1]))

\* the smaller of two numbers
Min(x, y) == IF x < y THEN x ELSE y

\* C18 (as stated): the call returns min(k, n) items, n the number of the user's
\* candidate items, in non-increasing order of score.
C18_ReturnsMinOfLimitAndCandidates ==
    (call.pc = "ranked" /\ call.raised = "none")
    => /\ Len(call.out) = Min(call.limit, Cardinality(ItemsWith(ledger, {"candidate"})))
       /\ ScoresDescend(call.out, userEmb.vec)

\* C18 (amended): the call returns min(k, m) items, m the number of the user's
\* candidate rows whose item has a catalog row and a stored embedding, in
\* non-increasing order of score.
C18_ReturnsMinOfLimitAndRankable ==
    (call.pc = "ranked" /\ call.raised = "none")
    => /\ Len(call.out)
          = Min(call.limit,
                CountUpTo([i \in Items |-> IF i \in catalog \cap itemEmb
                                           THEN ledger[i] ELSE <<>>],
                          NItems, {"candidate"}))
       /\ ScoresDescend(call.out, userEmb.vec)
       /\ \A k \in 1..Len(call.out) :
            call.out[k] \in ItemsWith(ledger, {"candidate"}) \cap catalog \cap itemEmb

\* C18: a call with more rankable candidates than the limit, and a candidate without
\* a stored embedding, has returned a list of different scores
C18_Witness ==
    /\ call.pc = "ranked" /\ call.raised = "none"
    /\ Len(call.out) = call.limit /\ call.limit > 1
    /\ Cardinality(ItemsWith(ledger, {"candidate"}) \cap catalog \cap itemEmb) > call.limit
    /\ ItemsWith(ledger, {"candidate"}) \ itemEmb # {}
    /\ Cosine(userEmb.vec, ItemVec(call.out[1]))
       > Cosine(userEmb.vec, ItemVec(call.out[call.limit]))

\* C22: in each swipe decision the right-swipe count and the total count describe
\* the same ledger: the right count the decision holds is the ledger's right count
\* at the read that gives the total, and it does not exceed the total.
C22_CountsFromOneRead ==
    [][\A p \in Procs :
        (pc[p] = "sw_total" /\ pc'[p] # "sw_total")
        => (loc[p].right = RightSwipes(ledger) /\ loc[p].right <= TotalSwipes(ledger))]_vars

\* C27: get_generation_status starts at most one generation thread for the user.
C27_AtMostOneThread == Cardinality({b \in BgIds : bg[b].pc # "free"}) <= 1

\* C28: a status of complete comes with a non-empty cached candidate list.
C28_CompleteHasCandidates == generation_status = "complete" => user_candidates # <<>>

C30_WrittenSwipeIsAcknowledged ==
    [][\A p \in Procs :
        (pc[p] \in {"sw_right", "sw_total", "upd_emb", "upd_items", "upd_write",
                    "gp_emb", "gp_rank"} /\ pc'[p] = "idle")
        => resp'.code = 200]_vars

\* C26: once update_user_embedding_from_swipes has stored a new version, every
\* ranking served is computed against the stored vector.
C26_RankedAgainstStoredVector ==
    [][(resp' # resp /\ resp'.vec # <<>> /\ writes > 0) => resp'.vec = userEmb.vec]_vars


\* C25: the result of retrieve_top_candidates has at most RETRIEVE_LIMIT items, no
\* two of them with the same (title, source_url) pair, keeps the adapter's order,
\* and holds every adapter item whose pair differs from the pairs of all items
\* before it.
C25_FirstOfEachPairIsKept ==
    call.pc = "retrieved" =>
        /\ Len(call.out) <= RETRIEVE_LIMIT
        /\ \A i, j \in 1..Len(call.out) : i < j => call.out[i] # call.out[j]
        /\ \A k \in 1..Len(call.results) :
              (k <= RETRIEVE_LIMIT /\ \A j \in 1..(k - 1) : call.results[j] # call.results[k])
                  => \E i \in 1..Len(call.out) : call.out[i] = call.results[k]


\* C21: every item_id written to the catalog, the embedding store or the ledger is
\* the 12-character SHA-256 digest of the item's source_url, whichever operation
\* wrote it.
C21_ItemIdsAreUrlDigests ==
    /\ \A row \in call.store : row.item_id.sha
    /\ \A row \in call.items : row.item_id = generate_item_id(row.source_url)
    /\ \A item_id \in call.user_item : item_id.sha

\* C24: the list batch_generate_embeddings returns is its input in the input's
\* order without exactly the items of empty source_url or empty embedding text, and
\* every item of it carries an embedding and the item_id of its source_url, with
\* and without the store.
C24_OutputIsFilteredInput ==
    (call.flags # <<>> /\ ~call.raised) =>
        /\ [k \in 1..Len(call.out) |->
               [source_url |-> call.out[k].source_url, title |-> call.out[k].title,
                description |-> call.out[k].description]]
             = SelectSeq(call.candidates,
                         LAMBDA c : c.source_url # <<>> /\ make_embedding_text(c) # <<>>)
        /\ \A k \in 1..Len(call.out) :
              /\ call.out[k].embedding # NoVec
              /\ call.out[k].item_id = generate_item_id(call.out[k].source_url)

\* C23: over calls that all store, the backend is invoked at most once for an
\* item_id, the embedding of every returned item is the one stored under its
\* item_id, and an item whose embedding was stored before the call is returned
\* with that vector.
C23_BackendInvokedOncePerItem ==
    (\A c \in 1..Len(call.flags) : call.flags[c]) =>
        /\ \A i, j \in 1..Len(call.invoked) : i < j => call.invoked[i] # call.invoked[j]
        /\ \A k \in 1..Len(call.out) :
              /\ EmbeddingRow(call.store, call.out[k].item_id) = call.out[k].embedding
              /\ EmbeddingRow(call.before, call.out[k].item_id) # NoVec
                    => call.out[k].embedding = EmbeddingRow(call.before, call.out[k].item_id)

\* C23, amended: over calls that all store, the backend returns a vector at most
\* once for an item_id (an invocation that raises ends the call and is repeated by
\* the next call), the embedding of every returned item is the one stored under its
\* item_id, a vector once stored is never replaced, and an item whose embedding
\* was stored before the call is returned with that vector.
C23_BackendReturnsOncePerItem ==
    (\A c \in 1..Len(call.flags) : call.flags[c]) =>
        /\ \A i, j \in 1..Len(call.returned) : i < j => call.returned[i] # call.returned[j]
        /\ \A row \in call.before : row \in call.store
        /\ \A k \in 1..Len(call.out) :
              /\ EmbeddingRow(call.store, call.out[k].item_id) = call.out[k].embedding
              /\ EmbeddingRow(call.before, call.out[k].item_id) # NoVec
                    => call.out[k].embedding = EmbeddingRow(call.before, call.out[k].item_id)

\* two calls that store, the second one served from the store, on a list of two
\* different items of one source_url
C23_Witness ==
    /\ call.flags = <<TRUE, TRUE>>
    /\ ~call.raised
    /\ Len(call.out) = 2
    /\ call.out[1].item_id = call.out[2].item_id
    /\ call.out[1].title # call.out[2].title
    /\ call.out[2].embedding = call.out[1].embedding
    /\ Len(call.invoked) = 1

=============================================================================
